---- MODULE Spec2Model ----
(***************************************************************************)
(* Patient-record persistence and AI-interaction audit flow of the         *)
(* fertility clinic application: the relational store (patients, treatment *)
(* profiles, cycles, lab results, documents, AI predictions and their      *)
(* foreign keys), the consultation handler POST /api/ai/process, the       *)
(* history handler GET /api/ai/process and the patient directory handler   *)
(* GET /api/patients.                                                      *)
(*                                                                         *)
(* Handlers hold no in-process shared state; they interact only through    *)
(* the store.  One handler invocation is in flight at a time and every     *)
(* await of the handler is a step, so that the store statements of other   *)
(* clients (creations and deletions) interleave with it.                   *)
(*                                                                         *)
(* Strings that the code trims or parses are sequences of one-character    *)
(* strings; texts the code only passes along are TLA+ strings.             *)
(***************************************************************************)
EXTENDS Integers, Sequences, FiniteSets, TLC

\* ------------------------------------------------------------------ bounds
MaxRows == 2    \* requests for a new AIPrediction or LabResult row are taken
                \* while fewer than MaxRows row ids have been generated
MaxInFlight == 2  \* the Home page issues a directory lookup or a history
                  \* fetch while fewer than MaxInFlight of its kind are
                  \* in flight

\* ----------------------------------------------------------------- strings
WhiteSpace == {" ", "\t"}

RECURSIVE trimStart(_)
trimStart(s) ==
  IF s # <<>> /\ Head(s) \in WhiteSpace THEN trimStart(Tail(s)) ELSE s

RECURSIVE trimEnd(_)
trimEnd(s) ==
  IF s # <<>> /\ s[Len(s)] \in WhiteSpace
  THEN trimEnd(SubSeq(s, 1, Len(s) - 1))
  ELSE s

\* String.prototype.trim
trim(s) == trimEnd(trimStart(s))

\* --------------------------------------------------------------- JS values
Undefined == [t |-> "undefined", s |-> <<>>]
NullVal   == [t |-> "null", s |-> <<>>]
NumberVal == [t |-> "number", s |-> <<>>]
ObjectVal == [t |-> "object", s |-> <<>>]
Str(x)    == [t |-> "string", s |-> x]

\* JS truthiness of the values above (a number field is taken non-zero)
Truthy(v) ==
  CASE v.t = "string" -> v.s # <<>>
    [] v.t \in {"undefined", "null"} -> FALSE
    [] OTHER -> TRUE

\* ------------------------------------------------------------ identifiers
PatientIds == {<<"p">>, <<"q">>}
CycleIds   == {<<"c">>}
NoCycle    == <<>>          \* cycle_id IS NULL
NoId       == 0             \* predictionId: null

MODEL_NAME == "llama-3.3-70b-versatile"
DEFAULT_CONFIDENCE == 85    \* 0.85, in hundredths
NoConfidence == {}          \* data.confidence undefined; {n} is the number n

VARIABLES
  patients,          \* ids of the rows of table patients
  profiles,          \* rows of patient_profiles: [id, patientId]
  cycles,            \* rows of treatment_cycles: [id, patientId]
  documents,         \* rows of documents: [id, patientId, cycleId]
  labResults,        \* rows of lab_results: [id, patientId, cycleId]
  aiPredictions,     \* rows of ai_predictions
  nextRowId,         \* next fresh id of a lab_results or ai_predictions row
  now,               \* CURRENT_TIMESTAMP of the latest insert into ai_predictions
  pc,                \* position of the handler in flight
  req,               \* the request being handled
  loc,               \* the handler's local variables
  resp,              \* the response it returned
  trace,             \* what the handler called so far for this request
  rowsCreated,       \* AIPrediction rows created by POST so far
  idResponses,       \* POST responses so far that carried a predictionId
  recorded,          \* bodies of the POSTs so far whose audit insert succeeded
  home,              \* the Home component: its React state and its refs
  timer,             \* the debounce timer of the lookup effect
  lookups,           \* directory lookups in flight, in order of issue
  histories,         \* history fetches in flight, in order of issue
  posting,           \* the consultation POST of handleSubmit in flight
  sinceEdit,         \* ms since the user last edited the patient input
  selectedId,        \* the suggestion selected since the last such edit
  lastRequested,     \* the patient of the latest history fetch issued
  event              \* the handler or callback that ran last

storeVars == <<patients, profiles, cycles, documents, labResults,
               aiPredictions, nextRowId, now>>
reqVars == <<pc, req, loc, resp, trace>>
countVars == <<rowsCreated, idResponses, recorded>>
vars == <<patients, profiles, cycles, documents, labResults, aiPredictions,
          nextRowId, now, pc, req, loc, resp, trace,
          rowsCreated, idResponses, recorded,
          home, timer, lookups, histories, posting,
          sinceEdit, selectedId, lastRequested, event>>
uiVars == <<home, timer, lookups, histories, posting,
            sinceEdit, selectedId, lastRequested, event>>

cycleIdsAlive == {c.id : c \in cycles}

\* ------------------------------------------------------------------- store
\* patient: { connect: { id } } under the NOT NULL foreign key patient_id
PatientConnectable_NoFk(id) == TRUE
PatientConnectable(id) == id \in patients

\* cycle: data.cycleId ? { connect: { id } } : undefined
CycleConnectable(cycleId) ==
  ~Truthy(cycleId) \/ cycleId.s \in cycleIdsAlive

CycleRef(cycleId) == IF Truthy(cycleId) THEN cycleId.s ELSE NoCycle

\* confidenceScore: data.confidence || 0.85
ConfidenceScore(confidence) ==
  IF confidence = NoConfidence \/ confidence = {0}
  THEN DEFAULT_CONFIDENCE
  ELSE CHOOSE n \in confidence : TRUE

\* ON DELETE SET NULL of lab_results.cycle_id and ai_predictions.cycle_id
SetNullCycle_All(rows, gone) == {[r EXCEPT !.cycleId = NoCycle] : r \in rows}
SetNullCycle(rows, gone) ==
  {IF r.cycleId \in gone THEN [r EXCEPT !.cycleId = NoCycle] ELSE r : r \in rows}

\* ON DELETE CASCADE of the patient_id foreign keys
CascadePatient_Keep(rows, id) == rows
CascadePatient(rows, id) == {r \in rows : r.patientId # id}

\* prisma.aIPrediction.create of logAIInteraction: the row it inserts
PredictionRow(data, createdAt) ==
  [id              |-> nextRowId,
   patientId       |-> data.patientId,
   cycleId         |-> CycleRef(data.cycleId),
   predictionType  |-> "CONSULTATION",
   input           |-> data.input,
   context         |-> IF Truthy(data.context) THEN data.context ELSE Undefined,
   output          |-> data.output,
   model           |-> data.model,
   confidenceScore |-> ConfidenceScore(data.confidence),
   modelVersion    |-> data.model,
   createdAt       |-> createdAt]

\* fertilityDB.logAIInteraction: throws when the store is down or a connect
\* finds no row, and then inserts nothing; otherwise inserts one row.
logAIInteraction(data, storeUp, createdAt) ==
  LET threw == ~storeUp
               \/ ~PatientConnectable(data.patientId)
               \/ ~CycleConnectable(data.cycleId)
  IN  [threw  |-> threw,
       record |-> PredictionRow(data, createdAt),
       rows   |-> IF threw THEN aiPredictions
                  ELSE aiPredictions \cup {PredictionRow(data, createdAt)}]

\* fertilityDB.createLabResult: connects the patient and, when given, the cycle
CreateLabResult(patientId, cycleId) ==
  /\ nextRowId + (IF pc \in {"infer", "log"} THEN 1 ELSE 0) <= MaxRows
  /\ PatientConnectable(patientId)
  /\ CycleConnectable(cycleId)
  /\ labResults' = labResults \cup
       {[id |-> nextRowId, patientId |-> patientId, cycleId |-> CycleRef(cycleId)]}
  /\ nextRowId' = nextRowId + 1
  /\ UNCHANGED <<patients, profiles, cycles, documents, aiPredictions, now>>
  /\ UNCHANGED reqVars
  /\ UNCHANGED countVars
  /\ UNCHANGED uiVars

\* DELETE FROM treatment_cycles WHERE id = ...: dependents are detached
DeleteCycle(id) ==
  /\ id \in cycleIdsAlive
  /\ cycles' = {c \in cycles : c.id # id}
  /\ labResults' = SetNullCycle(labResults, {id})
  /\ documents' = SetNullCycle(documents, {id})
  /\ aiPredictions' = SetNullCycle(aiPredictions, {id})
  /\ UNCHANGED <<patients, profiles, nextRowId, now>>
  /\ UNCHANGED reqVars
  /\ UNCHANGED countVars
  /\ UNCHANGED uiVars

\* DELETE FROM patients WHERE id = ...: cascades to the patient's profile,
\* cycles, lab results, documents and predictions; the deleted cycles detach
\* their own dependents.
DeletePatient(id) ==
  /\ id \in patients
  /\ LET gone == {c.id : c \in {x \in cycles : x.patientId = id}}
     IN  /\ patients' = patients \ {id}
         /\ profiles' = CascadePatient(profiles, id)
         /\ cycles' = CascadePatient(cycles, id)
         /\ labResults' = SetNullCycle(CascadePatient(labResults, id), gone)
         /\ documents' = SetNullCycle(CascadePatient(documents, id), gone)
         /\ aiPredictions' = SetNullCycle(CascadePatient(aiPredictions, id), gone)
  /\ UNCHANGED <<nextRowId, now>>
  /\ UNCHANGED reqVars
  /\ UNCHANGED countVars
  /\ UNCHANGED uiVars

\* ---------------------------------------------------------------- requests
\* Values a JSON body carries in message, patientId, cycleId and context
MessageValues ==
  {Undefined, NumberVal, Str(<<>>), Str(<<" ">>), Str(<<"h">>), Str(<<" ", "h", "\t">>)}
PatientIdValues ==
  {Undefined, NumberVal, Str(<<" ">>), Str(<<"p">>), Str(<<" ", "q">>), Str(<<"z">>)}
CycleIdValues ==
  {Undefined, NumberVal, Str(<<" ">>), Str(<<"c">>), Str(<<"c", " ">>), Str(<<"x">>)}
ContextValues == {Undefined, NullVal, ObjectVal, Str(<<"n">>)}

NoBody == [kind |-> "none", message |-> Undefined, patientId |-> Undefined,
           cycleId |-> Undefined, context |-> Undefined]

\* What request.json() meets: a JSON object, the JSON value null, or a
\* body that is no JSON at all.
Bodies ==
  [kind : {"object"}, message : MessageValues, patientId : PatientIdValues,
   cycleId : CycleIdValues, context : ContextValues]
  \cup {[NoBody EXCEPT !.kind = "null"], [NoBody EXCEPT !.kind = "malformed"]}

\* The bodies of the requests that follow one another in Spec
RoutineBodies ==
  [kind : {"object"}, message : {Undefined, Str(<<" ", "h", "\t">>)},
   patientId : {Str(<<"p">>), Str(<<" ", "q">>)},
   cycleId : {Undefined, Str(<<"c">>)}, context : {Undefined}]
  \cup {[NoBody EXCEPT !.kind = "null"]}

\* Query parameters of GET: searchParams.get gives null or a string
PatientIdParams == {NullVal, Str(<<>>), Str(<<"p">>), Str(<<"q">>)}
LimitParams == {NullVal, Str(<<"1">>), Str(<<"0">>), Str(<<"-", "1">>)}
\* limit varies on the requests that name a patient
GetParams ==
  {g \in [patientId : PatientIdParams, limit : LimitParams] :
     ~Truthy(g.patientId) => g.limit = NullVal}

\* Query parameters of the requests of the read paths taken on their own
WideLimitParams ==
  {NullVal, Str(<<>>), Str(<<"x">>), Str(<<"0">>), Str(<<"1">>), Str(<<"2">>),
   Str(<<"-", "5">>), Str(<<"5", "0">>), Str(<<"5", "1">>),
   Str(<<"9", "9", "9">>), Str(<<" ", "7">>), Str(<<"3", "x">>)}
ReadParams == [patientId : PatientIdParams, limit : WideLimitParams]
SearchParams ==
  {NullVal, Str(<<>>), Str(<<" ">>), Str(<<"a">>), Str(<<"A", "N">>),
   Str(<<" ", "n", " ">>), Str(<<"m", "2">>), Str(<<"@">>), Str(<<"o">>),
   Str(<<"z">>)}

HISTORY_PATH == "/api/ai/process"
PATIENTS_PATH == "/api/patients"
LOG_CALL == "fertilityDB.logAIInteraction"

\* data.confidence of a direct call of logAIInteraction, in hundredths
ConfidenceValues == {NoConfidence, {0}, {50}, {85}, {100}}

NoReq == [method |-> "NONE", path |-> "", body |-> NoBody, patientId |-> NullVal,
          limit |-> NullVal, search |-> NullVal, cycleId |-> Undefined,
          confidence |-> NoConfidence]
NoLoc == [message |-> <<>>, patientId |-> <<>>, cycleId |-> Undefined,
          context |-> Undefined, aiResponse |-> "", limit |-> 0,
          search |-> <<>>]
\* What the handler has done for the request in flight:
\*   lookup   "none", or how findUnique ended: "ran" or "error" (store down)
\*   existed  the patient named by the request was in the store when
\*            findUnique was issued
\*   ai, log  "none", or how the call ended: "ok" or "throw"
\*   content  the text the completion carried
\*   inserted the number of ai_predictions rows the request inserted
\*   query    "none", or how findMany ended: "ran" or "error" (store down)
\*   take     the take argument findMany was given
\*   filtered findMany was given a where filter on the patients' fields
\*   existedAtLog  the patient named by the request was in the store when
\*            logAIInteraction was issued
NoTrace == [lookup |-> "none", existed |-> FALSE, ai |-> "none", content |-> "",
            log |-> "none", aiCalls |-> 0, logCalls |-> 0, findManyCalls |-> 0,
            inserted |-> 0, query |-> "none", take |-> 0, filtered |-> FALSE,
            existedAtLog |-> FALSE]

\* A response: its status and the fields of its JSON payload
NoResp ==
  [status |-> 0, error |-> "", response |-> "", fallback |-> FALSE,
   model |-> "", patientId |-> <<>>, cycleId |-> NullVal,
   predictionId |-> NoId, limit |-> 0, history |-> <<>>, message |-> "",
   data |-> <<>>, count |-> 0, hasMore |-> FALSE]

\* ------------------------------------------------------------ collaborator
NO_RESPONSE == "No response generated"
\* What groq.chat.completions.create does: throws, or resolves with a
\* completion whose first choice is absent, empty or a text.
GroqOutcomes ==
  {[threw |-> TRUE, content |-> ""], [threw |-> FALSE, content |-> ""],
   [threw |-> FALSE, content |-> "Structured clinical guidance"]}
\* The outcomes of the requests that follow one another in Spec
RoutineOutcomes ==
  {[threw |-> TRUE, content |-> ""],
   [threw |-> FALSE, content |-> "Structured clinical guidance"]}

\* FertilityAI.processPatientInput
processPatientInput_Raw(out) ==
  [threw |-> out.threw, text |-> out.content]
processPatientInput(out) ==
  [threw |-> out.threw,
   text  |-> IF out.content = "" THEN NO_RESPONSE ELSE out.content]

\* ------------------------------------------------------- POST /api/ai/process
FALLBACK_RESPONSE == "I apologize, but I'm currently experiencing technical difficulties"

\* const message = typeof body.message === 'string' ? body.message.trim() : ''
ParseString_NoTrim(v) == IF v.t = "string" THEN v.s ELSE <<>>
ParseString(v) == IF v.t = "string" THEN trim(v.s) ELSE <<>>

\* const cycleId = typeof body.cycleId === 'string' ? body.cycleId.trim() : undefined
ParseCycleId(v) == IF v.t = "string" THEN Str(trim(v.s)) ELSE Undefined

\* const context = body.context && typeof body.context === 'object' ? ... : undefined
ParseContext(v) == IF Truthy(v) /\ v.t = "object" THEN v ELSE Undefined

ErrorResponse(status, error) ==
  [NoResp EXCEPT !.status = status, !.error = error]

\* the catch block of POST
CatchResponse_500 ==
  [NoResp EXCEPT !.status = 500, !.error = "AI service temporarily unavailable"]
CatchResponse ==
  [NoResp EXCEPT !.status = 200, !.response = FALLBACK_RESPONSE,
                 !.error = "AI service temporarily unavailable",
                 !.fallback = TRUE]

\* prisma.patient.findUnique({ where: { id } })
findUnique_Any(id) == TRUE
findUnique(id) == id \in patients

\* predictionId = record.id, or null when logAIInteraction threw
PredictionIdOf_Null(out) == NoId
PredictionIdOf(out) == IF out.threw THEN NoId ELSE out.record.id

\* the NextResponse.json of the try block
SuccessResponse(l, predictionId) ==
  [NoResp EXCEPT !.status = 200, !.response = l.aiResponse,
                 !.model = MODEL_NAME, !.patientId = l.patientId,
                 !.cycleId = IF l.cycleId.t = "undefined" THEN NullVal ELSE l.cycleId,
                 !.predictionId = predictionId]

\* catch (logError): the error is logged and the handler goes on
AfterLogError_Rethrow(l) == CatchResponse
AfterLogError(l) == SuccessResponse(l, NoId)

Respond(r) ==
  /\ pc' = "done"
  /\ resp' = r

\* POST up to the patient lookup: parse, validate, findUnique
PostStart(b, storeUp) ==
  /\ pc = "idle"
  /\ nextRowId <= MaxRows
  /\ req' = [NoReq EXCEPT !.method = "POST", !.path = HISTORY_PATH, !.body = b]
  /\ IF b.kind # "object"
     THEN \* request.json() rejects, or body.message reads a property of null
          /\ Respond(CatchResponse)
          /\ UNCHANGED <<loc, trace>>
     ELSE LET message == ParseString(b.message)
              patientId == ParseString(b.patientId)
              l == [NoLoc EXCEPT !.message = message, !.patientId = patientId,
                                 !.cycleId = ParseCycleId(b.cycleId),
                                 !.context = ParseContext(b.context)]
          IN  /\ loc' = l
              /\ IF message = <<>>
                 THEN /\ Respond(ErrorResponse(400, "Message is required"))
                      /\ UNCHANGED trace
                 ELSE IF patientId = <<>>
                 THEN /\ Respond(ErrorResponse(400, "patientId is required"))
                      /\ UNCHANGED trace
                 ELSE /\ trace' = [trace EXCEPT
                                     !.lookup = IF storeUp THEN "ran" ELSE "error",
                                     !.existed = trim(b.patientId.s) \in patients]
                      /\ IF ~storeUp
                         THEN Respond(CatchResponse)
                         ELSE IF ~findUnique(patientId)
                         THEN Respond(ErrorResponse(404, "Patient not found"))
                         ELSE /\ pc' = "infer"
                              /\ resp' = resp
  /\ UNCHANGED storeVars
  /\ UNCHANGED countVars
  /\ UNCHANGED uiVars

\* await fertilityAI.processPatientInput(message)
PostInfer(out) ==
  /\ pc = "infer"
  /\ LET r == processPatientInput(out)
     IN  IF r.threw
         THEN /\ Respond(CatchResponse)
              /\ loc' = loc
         ELSE /\ pc' = "log"
              /\ resp' = resp
              /\ loc' = [loc EXCEPT !.aiResponse = r.text]
  /\ trace' = [trace EXCEPT !.ai = IF out.threw THEN "throw" ELSE "ok",
                            !.content = out.content, !.aiCalls = @ + 1]
  /\ req' = req
  /\ UNCHANGED storeVars
  /\ UNCHANGED countVars
  /\ UNCHANGED uiVars

\* await fertilityDB.logAIInteraction({...}) in its try/catch, and the response
PostLog(storeUp, createdAt) ==
  /\ pc = "log"
  /\ LET data == [input |-> loc.message, output |-> loc.aiResponse,
                  model |-> MODEL_NAME, confidence |-> NoConfidence,
                  patientId |-> loc.patientId, cycleId |-> loc.cycleId,
                  context |-> loc.context]
         out == logAIInteraction(data, storeUp, createdAt)
         predictionId == PredictionIdOf(out)
     IN  /\ aiPredictions' = out.rows
         /\ nextRowId' = IF out.threw THEN nextRowId ELSE nextRowId + 1
         /\ now' = IF out.threw THEN now ELSE createdAt
         /\ rowsCreated' = rowsCreated + Cardinality(out.rows \ aiPredictions)
         /\ recorded' = IF out.threw THEN recorded ELSE recorded \cup {req.body}
         /\ LET r == IF out.threw THEN AfterLogError(loc)
                      ELSE SuccessResponse(loc, predictionId)
            IN  /\ Respond(r)
                /\ idResponses' = IF r.predictionId # NoId
                                  THEN idResponses + 1 ELSE idResponses
         /\ trace' = [trace EXCEPT
                        !.log = IF out.threw THEN "throw" ELSE "ok",
                        !.logCalls = @ + 1,
                        !.inserted = @ + Cardinality(out.rows \ aiPredictions),
                        !.existedAtLog = trim(req.body.patientId.s) \in patients]
  /\ UNCHANGED <<req, loc>>
  /\ UNCHANGED <<patients, profiles, cycles, documents, labResults>>
  /\ UNCHANGED uiVars

\* A call of fertilityDB.logAIInteraction by a caller that states its own
\* confidence
LogInteraction(patientId, cycleId, confidence, storeUp, createdAt) ==
  /\ pc = "idle"
  /\ nextRowId <= MaxRows
  /\ req' = [NoReq EXCEPT !.method = "CALL", !.path = LOG_CALL,
                          !.patientId = Str(patientId), !.cycleId = cycleId,
                          !.confidence = confidence]
  /\ LET data == [input |-> <<"h">>, output |-> "Structured clinical guidance",
                  model |-> MODEL_NAME, confidence |-> confidence,
                  patientId |-> patientId, cycleId |-> cycleId,
                  context |-> Undefined]
         out == logAIInteraction(data, storeUp, createdAt)
     IN  /\ aiPredictions' = out.rows
         /\ nextRowId' = IF out.threw THEN nextRowId ELSE nextRowId + 1
         /\ now' = IF out.threw THEN now ELSE createdAt
         /\ trace' = [trace EXCEPT
                        !.log = IF out.threw THEN "throw" ELSE "ok",
                        !.logCalls = @ + 1,
                        !.inserted = @ + Cardinality(out.rows \ aiPredictions)]
         /\ pc' = "done"
         /\ resp' = [resp EXCEPT !.predictionId =
                                  IF out.threw THEN NoId ELSE out.record.id]
  /\ loc' = loc
  /\ UNCHANGED <<patients, profiles, cycles, documents, labResults>>
  /\ UNCHANGED countVars
  /\ UNCHANGED uiVars

\* the response has been delivered; the next request can be taken
Finish ==
  /\ pc = "done"
  /\ pc' = "idle"
  /\ req' = NoReq
  /\ loc' = NoLoc
  /\ resp' = NoResp
  /\ trace' = NoTrace
  /\ UNCHANGED storeVars
  /\ UNCHANGED countVars
  /\ UNCHANGED uiVars

\* -------------------------------------------------------- GET /api/ai/process
HISTORY_DEFAULT_LIMIT == 10
HISTORY_MAX_LIMIT == 50
NaN == [nan |-> TRUE, n |-> 0]
Num(n) == [nan |-> FALSE, n |-> n]

DigitChars == <<"0", "1", "2", "3", "4", "5", "6", "7", "8", "9">>
IsDigit(c) == \E i \in 1..Len(DigitChars) : DigitChars[i] = c
DigitValue(c) == (CHOOSE i \in 1..Len(DigitChars) : DigitChars[i] = c) - 1

RECURSIVE DigitsPrefix(_)
DigitsPrefix(s) ==
  IF s # <<>> /\ IsDigit(Head(s))
  THEN <<Head(s)>> \o DigitsPrefix(Tail(s))
  ELSE <<>>

RECURSIVE DecimalValue(_)
DecimalValue(ds) ==
  IF ds = <<>> THEN 0
  ELSE 10 * DecimalValue(SubSeq(ds, 1, Len(ds) - 1)) + DigitValue(ds[Len(ds)])

\* parseInt(s, 10): leading white space, an optional sign, then the longest
\* run of digits; NaN when there is no digit.
parseInt(s) ==
  LET t == trimStart(s)
      signed == t # <<>> /\ Head(t) \in {"-", "+"}
      ds == DigitsPrefix(IF signed THEN Tail(t) ELSE t)
  IN  IF ds = <<>> THEN NaN
      ELSE IF signed /\ Head(t) = "-" THEN Num(0 - DecimalValue(ds))
      ELSE Num(DecimalValue(ds))

Min(a, b) == IF a <= b THEN a ELSE b
Max(a, b) == IF a >= b THEN a ELSE b

\* const limit = takeParam ? Math.min(parseInt(takeParam, 10) || 10, 50) : 10
HistoryLimit_Uncapped(takeParam) ==
  IF ~Truthy(takeParam) THEN HISTORY_DEFAULT_LIMIT
  ELSE LET parsed == parseInt(takeParam.s)
       IN  IF parsed.nan \/ parsed.n = 0 THEN HISTORY_DEFAULT_LIMIT ELSE parsed.n
HistoryLimit(takeParam) ==
  IF ~Truthy(takeParam) THEN HISTORY_DEFAULT_LIMIT
  ELSE LET parsed == parseInt(takeParam.s)
       IN  Min(IF parsed.nan \/ parsed.n = 0 THEN HISTORY_DEFAULT_LIMIT ELSE parsed.n,
               HISTORY_MAX_LIMIT)

\* The orders in which findMany({ where: { patientId }, orderBy: { createdAt:
\* 'desc' } }) can return the rows: rows of equal createdAt come in any order.
OrderedHistories(patientId) ==
  LET rows == {r \in aiPredictions : r.patientId = patientId}
      n == Cardinality(rows)
  IN  {h \in [1..n -> rows] :
         /\ \A i, j \in 1..n : i # j => h[i] # h[j]
         /\ \A i, j \in 1..n : i < j => h[i].createdAt >= h[j].createdAt}

\* take: a positive count keeps the first rows of the order, a negative
\* count the last ones (Prisma's reading of take)
Take(h, take) ==
  IF take >= 0 THEN SubSeq(h, 1, Min(take, Len(h)))
  ELSE SubSeq(h, Max(1, Len(h) + take + 1), Len(h))

MetadataResponse_Required == ErrorResponse(400, "patientId is required")
MetadataResponse ==
  [NoResp EXCEPT !.status = 200, !.model = MODEL_NAME,
                 !.message = "FertiClaude AI Process API is running"]

HistoryResponse(patientId, limit, history) ==
  [NoResp EXCEPT !.status = 200, !.patientId = patientId, !.limit = limit,
                 !.history = history]

\* GET up to the patient lookup
GetStart(patientId, takeParam, storeUp) ==
  /\ pc = "idle"
  /\ req' = [NoReq EXCEPT !.method = "GET", !.path = HISTORY_PATH,
                          !.patientId = patientId, !.limit = takeParam]
  /\ LET limit == HistoryLimit(takeParam)
     IN  /\ loc' = [NoLoc EXCEPT !.patientId = patientId.s, !.limit = limit]
         /\ IF ~Truthy(patientId)
            THEN /\ Respond(MetadataResponse)
                 /\ UNCHANGED trace
            ELSE /\ trace' = [trace EXCEPT
                                !.lookup = IF storeUp THEN "ran" ELSE "error",
                                !.existed = patientId.s \in patients]
                 /\ IF ~storeUp
                    THEN Respond(ErrorResponse(500, "Failed to load AI history"))
                    ELSE IF ~findUnique(patientId.s)
                    THEN Respond(ErrorResponse(404, "Patient not found"))
                    ELSE /\ pc' = "findMany"
                         /\ resp' = resp
  /\ UNCHANGED storeVars
  /\ UNCHANGED countVars
  /\ UNCHANGED uiVars

\* await prisma.aIPrediction.findMany({...}) and the response
GetFindMany(storeUp) ==
  /\ pc = "findMany"
  /\ IF ~storeUp
     THEN Respond(ErrorResponse(500, "Failed to load AI history"))
     ELSE \E h \in OrderedHistories(loc.patientId) :
            Respond(HistoryResponse(loc.patientId, loc.limit, Take(h, loc.limit)))
  /\ trace' = [trace EXCEPT !.findManyCalls = @ + 1,
                            !.query = IF storeUp THEN "ran" ELSE "error",
                            !.take = loc.limit]
  /\ UNCHANGED <<req, loc>>
  /\ UNCHANGED storeVars
  /\ UNCHANGED countVars
  /\ UNCHANGED uiVars

\* ---------------------------------------------------------- GET /api/patients
MAX_LIMIT == 50
DEFAULT_LIMIT == 20

\* The columns of the rows of table patients that the directory reads; the
\* model never updates a patient, so they are fixed per id.
PatientRecord(id) ==
  IF id = <<"p">>
  THEN [id |-> id, mrn |-> <<"M", "1">>, firstName |-> <<"A", "n">>,
        lastName |-> <<"L", "i">>, email |-> Str(<<"a", "@", "x">>),
        updatedAt |-> 2, createdAt |-> 1]
  ELSE [id |-> id, mrn |-> <<"M", "2">>, firstName |-> <<"B", "o">>,
        lastName |-> <<"N", "g">>, email |-> NullVal,
        updatedAt |-> 2, createdAt |-> 2]

\* select: { id, firstName, lastName, mrn, dateOfBirth }
PatientSummary(id) ==
  [id |-> id, firstName |-> PatientRecord(id).firstName,
   lastName |-> PatientRecord(id).lastName, mrn |-> PatientRecord(id).mrn]

\* const search = (searchParams.get('search') ?? '').trim()
DirectorySearch(rawSearch) ==
  IF rawSearch.t = "null" THEN <<>> ELSE trim(rawSearch.s)

\* const parsedLimit = limitParam ? Number.parseInt(limitParam, 10) : NaN
\* const take = Number.isNaN(parsedLimit) ? DEFAULT_LIMIT
\*                : Math.min(Math.max(parsedLimit, 1), MAX_LIMIT)
DirectoryTake_NoFloor(limitParam) ==
  LET parsedLimit == IF Truthy(limitParam) THEN parseInt(limitParam.s) ELSE NaN
  IN  IF parsedLimit.nan THEN DEFAULT_LIMIT ELSE Min(parsedLimit.n, MAX_LIMIT)
DirectoryTake(limitParam) ==
  LET parsedLimit == IF Truthy(limitParam) THEN parseInt(limitParam.s) ELSE NaN
  IN  IF parsedLimit.nan THEN DEFAULT_LIMIT
      ELSE Min(Max(parsedLimit.n, 1), MAX_LIMIT)

\* case folding of mode: 'insensitive'
LowerChar(c) ==
  CASE c = "A" -> "a" [] c = "B" -> "b" [] c = "L" -> "l"
    [] c = "M" -> "m" [] c = "N" -> "n" [] OTHER -> c
LowerCase(s) == [i \in 1..Len(s) |-> LowerChar(s[i])]

\* contains: the needle is a substring of the column
Contains(hay, needle) ==
  \E i \in 0..(Len(hay) - Len(needle)) : SubSeq(hay, i + 1, i + Len(needle)) = needle

\* { contains: search, mode: 'insensitive' }
ContainsInsensitive_Exact(hay, needle) == Contains(hay, needle)
ContainsInsensitive(hay, needle) == Contains(LowerCase(hay), LowerCase(needle))

\* where: filters -- the OR over firstName, lastName, email and mrn, or no
\* filter when search is empty; a NULL email matches nothing
PatientMatches(id, search) ==
  LET r == PatientRecord(id)
  IN  \/ search = <<>>
      \/ ContainsInsensitive(r.firstName, search)
      \/ ContainsInsensitive(r.lastName, search)
      \/ (r.email.t = "string" /\ ContainsInsensitive(r.email.s, search))
      \/ ContainsInsensitive(r.mrn, search)

\* The orders in which findMany({ where: filters, orderBy: [{ updatedAt:
\* 'desc' }, { createdAt: 'desc' }] }) can return the rows.
OrderedPatients(search) ==
  LET ids == {id \in patients : PatientMatches(id, search)}
      n == Cardinality(ids)
      Before(a, b) ==
        \/ PatientRecord(a).updatedAt > PatientRecord(b).updatedAt
        \/ /\ PatientRecord(a).updatedAt = PatientRecord(b).updatedAt
           /\ PatientRecord(a).createdAt >= PatientRecord(b).createdAt
  IN  {h \in [1..n -> ids] :
         /\ \A i, j \in 1..n : i # j => h[i] # h[j]
         /\ \A i, j \in 1..n : i < j => Before(h[i], h[j])}

\* hasMore: patients.length === take
HasMore_Beyond(n, take) == n > take
HasMore(n, take) == n = take

DirectoryResponse(found, take) ==
  [NoResp EXCEPT !.status = 200,
                 !.data = [i \in 1..Len(found) |-> PatientSummary(found[i])],
                 !.count = Len(found),
                 !.hasMore = HasMore(Len(found), take)]

\* the catch block of GET /api/patients
DirectoryCatchResponse_Leak ==
  ErrorResponse(500, "PrismaClientInitializationError")
DirectoryCatchResponse ==
  ErrorResponse(500, "Unable to retrieve patients. Please try again later.")

\* GET /api/patients: one findMany and the response
ListPatients(rawSearch, limitParam, storeUp) ==
  /\ pc = "idle"
  /\ req' = [NoReq EXCEPT !.method = "GET", !.path = PATIENTS_PATH,
                          !.search = rawSearch, !.limit = limitParam]
  /\ LET search == DirectorySearch(rawSearch)
         take == DirectoryTake(limitParam)
     IN  /\ loc' = [NoLoc EXCEPT !.search = search, !.limit = take]
         /\ trace' = [trace EXCEPT !.findManyCalls = @ + 1,
                                   !.query = IF storeUp THEN "ran" ELSE "error",
                                   !.take = take,
                                   !.filtered = (search # <<>>)]
         /\ IF ~storeUp
            THEN Respond(DirectoryCatchResponse)
            ELSE \E found \in OrderedPatients(search) :
                   Respond(DirectoryResponse(Take(found, take), take))
  /\ UNCHANGED storeVars
  /\ UNCHANGED countVars
  /\ UNCHANGED uiVars

\* ------------------------------------------------------------------ Home page
\* The Home component (app/page.tsx) in one browser tab. An event handler
\* runs to its first await, React renders and runs the effects, all in one
\* step; each fetch in flight completes in a step of its own, in any order.
\* The server answers as the routes above answer for the store as it is.
\* State that only formats the display (currentResponse, cycleId) is left out.
DEBOUNCE_MS == 400
PATIENT_REQUIRED == "Patient ID is required to record consultations."
HISTORY_ID_REQUIRED == "Enter a patient ID to view history."
LOOKUP_FAILED == "Unable to search patients"
HISTORY_FAILED == "Unable to load consultation history"

\* What the user types into the patient field and into the consultation text
PatientTexts == {<<>>, <<" ">>, <<"p">>, <<"A", "n">>, <<" ", "B", "o">>}
IdTexts == {<<>>, <<"p">>, <<" ", "q">>}
InputTexts == {<<>>, <<" ">>, <<"h">>}

NoTimer == [armed |-> FALSE, query |-> <<>>, elapsed |-> 0]
NoPost == [sent |-> FALSE, patientId |-> <<>>]

\* useState(...) and useRef(...) of the first render
HomeInit ==
  [input |-> <<>>, loading |-> FALSE, consultationHistory |-> <<>>,
   currentView |-> "home", patientInput |-> <<>>, patientId |-> <<>>,
   formError |-> "", historyLoading |-> FALSE, historyError |-> "",
   patientSuggestions |-> <<>>, patientLookupLoading |-> FALSE,
   patientLookupError |-> "", suppressLookupRef |-> FALSE,
   lastLookupRef |-> <<>>]

Remove(s, i) == SubSeq(s, 1, i - 1) \o SubSeq(s, i + 1, Len(s))

\* formatPatientSummary: name, then the MRN label ("*" stands for the
\* bullet); the suggestions of the model carry no date of birth
formatPatientSummary(patient) ==
  LET name == trim(patient.firstName \o <<" ">> \o patient.lastName)
      fullName == IF name # <<>> THEN name
                  ELSE IF patient.mrn # <<>> THEN patient.mrn ELSE patient.id
      mrnLabel == IF patient.mrn # <<>>
                  THEN <<" ", "*", " ", "M", "R", "N", " ">> \o patient.mrn
                  ELSE <<>>
  IN  fullName \o mrnLabel

\* The answers GET /api/patients?search=query can give
LookupAnswers(query) ==
  LET take == DirectoryTake(NullVal)
  IN  {DirectoryCatchResponse}
      \cup {DirectoryResponse(Take(found, take), take) :
              found \in OrderedPatients(DirectorySearch(Str(query)))}

\* The answers GET /api/ai/process?patientId=id can give
HistoryAnswers(id) ==
  LET limit == HistoryLimit(NullVal)
  IN  {ErrorResponse(500, "Failed to load AI history")}
      \cup (IF ~findUnique(id)
            THEN {ErrorResponse(404, "Patient not found")}
            ELSE {HistoryResponse(id, limit, Take(h, limit)) :
                    h \in OrderedHistories(id)})

\* historyEntries.map(...): the sessions carry the patient asked for
Sessions(history, trimmedId) ==
  [i \in 1..Len(history) |->
     [id |-> history[i].id, input |-> history[i].input,
      patientId |-> trimmedId]]

\* The effect on [handlePatientLookup, patientInput]: its cleanup has
\* cleared the timer of the previous run
LookupEffect_NoMinimum(h) ==
  LET trimmed == trim(h.patientInput)
  IN  IF h.suppressLookupRef
      THEN [home |-> [h EXCEPT !.suppressLookupRef = FALSE], timer |-> NoTimer]
      ELSE IF trimmed = <<>>
      THEN [home |-> [h EXCEPT !.patientSuggestions = <<>>,
                               !.patientLookupError = "",
                               !.lastLookupRef = <<>>],
            timer |-> NoTimer]
      ELSE [home |-> h,
            timer |-> [armed |-> TRUE, query |-> trimmed, elapsed |-> 0]]
LookupEffect(h) ==
  LET trimmed == trim(h.patientInput)
  IN  IF h.suppressLookupRef
      THEN [home |-> [h EXCEPT !.suppressLookupRef = FALSE], timer |-> NoTimer]
      ELSE IF trimmed = <<>>
      THEN [home |-> [h EXCEPT !.patientSuggestions = <<>>,
                               !.patientLookupError = "",
                               !.lastLookupRef = <<>>],
            timer |-> NoTimer]
      ELSE IF Len(trimmed) < 2
      THEN [home |-> [h EXCEPT !.patientSuggestions = <<>>,
                               !.lastLookupRef = <<>>],
            timer |-> NoTimer]
      ELSE [home |-> h,
            timer |-> [armed |-> TRUE, query |-> trimmed, elapsed |-> 0]]

\* The render after a handler that left the state h: the effect runs when
\* patientInput has changed
Rendered(h) ==
  IF h.patientInput # home.patientInput THEN LookupEffect(h)
  ELSE [home |-> h, timer |-> timer]

\* setTimeout(..., 400): the callback is due
TimerDue(t) == t.elapsed >= DEBOUNCE_MS

\* fetchPatientHistory up to its fetch
fetchPatientHistory(h, targetPatientId) ==
  LET trimmedId == trim(targetPatientId)
  IN  IF trimmedId = <<>>
      THEN [home |-> [h EXCEPT !.consultationHistory = <<>>],
            issued |-> FALSE, patientId |-> trimmedId]
      ELSE [home |-> [h EXCEPT !.historyLoading = TRUE, !.historyError = ""],
            issued |-> TRUE, patientId |-> trimmedId]

\* The fetch of fetchPatientHistory leaves; resume says that handleSubmit
\* awaits it
IssueHistory(f, resume) ==
  IF f.issued
  THEN /\ Len(histories) < MaxInFlight
       /\ histories' = Append(histories,
                              [patientId |-> f.patientId, resume |-> resume])
       /\ lastRequested' = f.patientId
  ELSE UNCHANGED <<histories, lastRequested>>

\* onChange of the patient field, the render and the effect
PatientInputChange(value) ==
  /\ home.currentView = "home"
  /\ value # home.patientInput
  /\ LET h == [home EXCEPT !.patientInput = value,
                           !.patientId = trim(value),
                           !.formError = "",
                           !.patientLookupError = "",
                           !.patientSuggestions = <<>>]
     IN  /\ home' = Rendered(h).home
         /\ timer' = Rendered(h).timer
  /\ sinceEdit' = 0
  /\ selectedId' = <<>>
  /\ event' = "onChange"
  /\ UNCHANGED <<lookups, histories, posting, lastRequested>>
  /\ UNCHANGED <<storeVars, reqVars, countVars>>

\* onChange of the consultation text
InputChange(value) ==
  /\ home.currentView = "home"
  /\ value # home.input
  /\ home' = [home EXCEPT !.input = value]
  /\ event' = "setInput"
  /\ UNCHANGED <<timer, lookups, histories, posting, sinceEdit, selectedId,
                 lastRequested>>
  /\ UNCHANGED <<storeVars, reqVars, countVars>>

\* d ms pass
Tick(d) ==
  /\ (timer.armed /\ ~TimerDue(timer)) \/ sinceEdit < DEBOUNCE_MS
  /\ timer' = IF timer.armed
              THEN [timer EXCEPT !.elapsed = Min(@ + d, DEBOUNCE_MS)]
              ELSE timer
  /\ sinceEdit' = Min(sinceEdit + d, DEBOUNCE_MS)
  /\ event' = "tick"
  /\ UNCHANGED <<home, lookups, histories, posting, selectedId, lastRequested>>
  /\ UNCHANGED <<storeVars, reqVars, countVars>>

\* The timer's callback: handlePatientLookup(trimmed) up to its fetch
DebounceElapsed ==
  /\ timer.armed
  /\ TimerDue(timer)
  /\ timer' = NoTimer
  /\ IF timer.query = <<>>
     THEN /\ home' = [home EXCEPT !.patientSuggestions = <<>>,
                                  !.patientLookupError = "",
                                  !.patientLookupLoading = FALSE,
                                  !.lastLookupRef = <<>>]
          /\ UNCHANGED lookups
     ELSE IF timer.query = home.lastLookupRef
     THEN UNCHANGED <<home, lookups>>
     ELSE /\ Len(lookups) < MaxInFlight
          /\ home' = [home EXCEPT !.patientLookupLoading = TRUE,
                                  !.patientLookupError = ""]
          /\ lookups' = Append(lookups, timer.query)
  /\ event' = "timeout"
  /\ UNCHANGED <<histories, posting, sinceEdit, selectedId, lastRequested>>
  /\ UNCHANGED <<storeVars, reqVars, countVars>>

\* The fetch of handlePatientLookup resolves: the rest of the function
LookupFetched(i, r) ==
  /\ i \in 1..Len(lookups)
  /\ lookups' = Remove(lookups, i)
  /\ home' =
       IF r.status = 200
       THEN [home EXCEPT
               !.patientSuggestions = SelectSeq(r.data, LAMBDA s : s.id # <<>>),
               !.lastLookupRef = lookups[i],
               !.patientLookupLoading = FALSE]
       ELSE [home EXCEPT
               !.patientLookupError = IF r.error # "" THEN r.error
                                      ELSE LOOKUP_FAILED,
               !.patientSuggestions = <<>>,
               !.lastLookupRef = <<>>,
               !.patientLookupLoading = FALSE]
  /\ event' = "lookup"
  /\ UNCHANGED <<timer, histories, posting, sinceEdit, selectedId,
                 lastRequested>>
  /\ UNCHANGED <<storeVars, reqVars, countVars>>

\* onClick of the k-th suggestion: handlePatientSelection up to the fetch of
\* its history, the render and the effect
handlePatientSelection(k) ==
  /\ home.currentView = "home"
  /\ k \in 1..Len(home.patientSuggestions)
  /\ LET patient == home.patientSuggestions[k]
         h == [home EXCEPT !.suppressLookupRef = TRUE,
                           !.patientInput = formatPatientSummary(patient),
                           !.patientId = patient.id,
                           !.patientSuggestions = <<>>,
                           !.patientLookupLoading = FALSE,
                           !.patientLookupError = "",
                           !.lastLookupRef = patient.id,
                           !.formError = "",
                           !.historyError = ""]
         f == fetchPatientHistory(h, patient.id)
     IN  /\ IssueHistory(f, FALSE)
         /\ home' = Rendered(f.home).home
         /\ timer' = Rendered(f.home).timer
         /\ selectedId' = patient.id
  /\ event' = "select"
  /\ UNCHANGED <<lookups, posting, sinceEdit>>
  /\ UNCHANGED <<storeVars, reqVars, countVars>>

\* onClick of "Consultation History"
viewHistory ==
  /\ LET trimmedId == trim(IF home.patientId # <<>> THEN home.patientId
                           ELSE home.patientInput)
     IN  IF trimmedId = <<>>
         THEN /\ home' = [home EXCEPT !.formError = HISTORY_ID_REQUIRED]
              /\ UNCHANGED <<histories, lastRequested>>
         ELSE LET h == [home EXCEPT !.currentView = "history",
                                    !.historyError = "",
                                    !.patientSuggestions = <<>>]
                  f == fetchPatientHistory(h, trimmedId)
              IN  /\ IssueHistory(f, FALSE)
                  /\ home' = f.home
  /\ event' = "viewHistory"
  /\ UNCHANGED <<timer, lookups, posting, sinceEdit, selectedId>>
  /\ UNCHANGED <<storeVars, reqVars, countVars>>

\* The fetch of fetchPatientHistory resolves: the rest of the function and,
\* when handleSubmit awaits it, the rest of handleSubmit
HistoryFetched(i, r) ==
  /\ i \in 1..Len(histories)
  /\ histories' = Remove(histories, i)
  /\ LET h == IF r.status = 200
              THEN [home EXCEPT
                      !.consultationHistory =
                         Sessions(r.history, histories[i].patientId),
                      !.historyLoading = FALSE]
              ELSE [home EXCEPT
                      !.historyError = IF r.error # "" THEN r.error
                                       ELSE HISTORY_FAILED,
                      !.historyLoading = FALSE]
     IN  home' = IF histories[i].resume
                 THEN [h EXCEPT !.currentView = "analysis", !.loading = FALSE]
                 ELSE h
  /\ event' = "history"
  /\ UNCHANGED <<timer, lookups, posting, sinceEdit, selectedId, lastRequested>>
  /\ UNCHANGED <<storeVars, reqVars, countVars>>

\* onSubmit of the form: handleSubmit up to its fetch. The button is
\* disabled={loading || !input.trim()}; the handler checks the text itself.
handleSubmit_NoPatientCheck ==
  LET trimmedInput == trim(home.input)
      trimmedPatientId == trim(IF home.patientId # <<>> THEN home.patientId
                               ELSE home.patientInput)
  IN  IF trimmedInput = <<>>
      THEN [home |-> home, post |-> NoPost]
      ELSE [home |-> [home EXCEPT !.formError = "", !.loading = TRUE],
            post |-> [sent |-> TRUE, patientId |-> trimmedPatientId]]
handleSubmit ==
  LET trimmedInput == trim(home.input)
      trimmedPatientId == trim(IF home.patientId # <<>> THEN home.patientId
                               ELSE home.patientInput)
  IN  IF trimmedInput = <<>>
      THEN [home |-> home, post |-> NoPost]
      ELSE IF trimmedPatientId = <<>>
      THEN [home |-> [home EXCEPT !.formError = PATIENT_REQUIRED],
            post |-> NoPost]
      ELSE [home |-> [home EXCEPT !.formError = "", !.loading = TRUE],
            post |-> [sent |-> TRUE, patientId |-> trimmedPatientId]]

Submit ==
  /\ home.currentView = "home"
  /\ ~home.loading
  /\ home' = handleSubmit.home
  /\ posting' = handleSubmit.post
  /\ event' = "submit"
  /\ UNCHANGED <<timer, lookups, histories, sinceEdit, selectedId,
                 lastRequested>>
  /\ UNCHANGED <<storeVars, reqVars, countVars>>

\* The POST of handleSubmit resolves: with an answer that is ok the history
\* is fetched and awaited, otherwise the catch and the finally blocks run
PostFetched(ok) ==
  /\ posting.sent
  /\ posting' = NoPost
  /\ IF ok
     THEN LET f == fetchPatientHistory([home EXCEPT !.historyError = ""],
                                       posting.patientId)
          IN  /\ IssueHistory(f, TRUE)
              /\ home' = f.home
     ELSE /\ home' = [home EXCEPT !.currentView = "analysis",
                                  !.loading = FALSE]
          /\ UNCHANGED <<histories, lastRequested>>
  /\ event' = "post"
  /\ UNCHANGED <<timer, lookups, sinceEdit, selectedId>>
  /\ UNCHANGED <<storeVars, reqVars, countVars>>

\* onClick of "Back to Home"
goBack ==
  /\ home.currentView # "home"
  /\ home' = [home EXCEPT !.currentView = "home", !.historyError = ""]
  /\ event' = "goBack"
  /\ UNCHANGED <<timer, lookups, histories, posting, sinceEdit, selectedId,
                 lastRequested>>
  /\ UNCHANGED <<storeVars, reqVars, countVars>>

\* onClick of "View" on the k-th session of the history view
loadHistoryItem(k) ==
  /\ home.currentView = "history"
  /\ ~home.historyLoading
  /\ k \in 1..Len(home.consultationHistory)
  /\ LET session == home.consultationHistory[k]
     IN  home' = [home EXCEPT !.input = session.input,
                              !.patientId = session.patientId,
                              !.currentView = "analysis"]
  /\ event' = "loadHistoryItem"
  /\ UNCHANGED <<timer, lookups, histories, posting, sinceEdit, selectedId,
                 lastRequested>>
  /\ UNCHANGED <<storeVars, reqVars, countVars>>

\* ------------------------------------------------------------ specification
Init ==
  /\ patients = PatientIds
  /\ profiles = {[id |-> <<"f">>, patientId |-> <<"p">>],
                 [id |-> <<"g">>, patientId |-> <<"q">>]}
  /\ cycles = {[id |-> <<"c">>, patientId |-> <<"p">>]}
  /\ documents = {[id |-> <<"d">>, patientId |-> <<"p">>, cycleId |-> <<"c">>],
                  [id |-> <<"e">>, patientId |-> <<"q">>, cycleId |-> NoCycle]}
  /\ labResults = {}
  /\ aiPredictions = {}
  /\ nextRowId = 1
  /\ now = 0
  /\ pc = "idle"
  /\ req = NoReq
  /\ loc = NoLoc
  /\ resp = NoResp
  /\ trace = NoTrace
  /\ rowsCreated = 0
  /\ idResponses = 0
  /\ recorded = {}
  /\ home = HomeInit
  /\ timer = NoTimer
  /\ lookups = <<>>
  /\ histories = <<>>
  /\ posting = NoPost
  /\ sinceEdit = DEBOUNCE_MS
  /\ selectedId = <<>>
  /\ lastRequested = <<>>
  /\ event = "render"

Next ==
  \/ \E p \in PatientIds, c \in {Undefined} \cup {Str(id) : id \in CycleIds} :
       CreateLabResult(p, c)
  \/ \E id \in CycleIds : DeleteCycle(id)
  \/ \E id \in PatientIds : DeletePatient(id)
  \/ \E b \in RoutineBodies, storeUp \in BOOLEAN : PostStart(b, storeUp)
  \/ \E out \in RoutineOutcomes : PostInfer(out)
  \/ \E storeUp \in BOOLEAN, createdAt \in {now, now + 1} :
       PostLog(storeUp, createdAt)
  \/ \E g \in GetParams, storeUp \in BOOLEAN :
       GetStart(g.patientId, g.limit, storeUp)
  \/ \E storeUp \in BOOLEAN : GetFindMany(storeUp)
  \/ Finish

\* Requests of both handlers follow one another while other clients create
\* lab results and delete patients and cycles.
Spec == Init /\ [][Next]_vars

\* One consultation, with every body and every outcome of the collaborator,
\* while other clients delete patients and cycles.
NextPost ==
  \/ \E id \in CycleIds : DeleteCycle(id)
  \/ \E id \in PatientIds : DeletePatient(id)
  \/ \E b \in Bodies, storeUp \in BOOLEAN : PostStart(b, storeUp)
  \/ \E out \in GroqOutcomes : PostInfer(out)
  \/ \E storeUp \in BOOLEAN, createdAt \in {now, now + 1} :
       PostLog(storeUp, createdAt)

SpecPost == Init /\ [][NextPost]_vars

\* Requests of the read paths, with every limit and search parameter, while
\* other clients delete patients.
NextRead ==
  \/ \E id \in PatientIds : DeletePatient(id)
  \/ \E g \in ReadParams, storeUp \in BOOLEAN :
       GetStart(g.patientId, g.limit, storeUp)
  \/ \E storeUp \in BOOLEAN : GetFindMany(storeUp)
  \/ \E rawSearch \in SearchParams, limitParam \in WideLimitParams,
        storeUp \in BOOLEAN : ListPatients(rawSearch, limitParam, storeUp)
  \/ Finish

SpecRead == Init /\ [][NextRead]_vars

\* Direct calls of the fertilityDB helpers, with every confidence, while
\* other clients delete patients and cycles.
NextDb ==
  \/ \E p \in PatientIds, c \in {Undefined} \cup {Str(id) : id \in CycleIds} :
       CreateLabResult(p, c)
  \/ \E p \in PatientIds, c \in {Undefined} \cup {Str(id) : id \in CycleIds},
        confidence \in ConfidenceValues, storeUp \in BOOLEAN,
        createdAt \in {now, now + 1} :
       LogInteraction(p, c, confidence, storeUp, createdAt)
  \/ \E id \in CycleIds : DeleteCycle(id)
  \/ \E id \in PatientIds : DeletePatient(id)
  \/ Finish

SpecDb == Init /\ [][NextDb]_vars

\* The Home page in one tab, over a store in which each patient has one
\* consultation on record.
SeedBody(patientId) ==
  [kind |-> "object", message |-> Str(<<"h">>), patientId |-> Str(patientId),
   cycleId |-> Undefined, context |-> Undefined]
SeedRow(id, patientId, createdAt) ==
  [id              |-> id,
   patientId       |-> patientId,
   cycleId         |-> NoCycle,
   predictionType  |-> "CONSULTATION",
   input           |-> <<"h">>,
   context         |-> Undefined,
   output          |-> "Structured clinical guidance",
   model           |-> MODEL_NAME,
   confidenceScore |-> DEFAULT_CONFIDENCE,
   modelVersion    |-> MODEL_NAME,
   createdAt       |-> createdAt]

InitHome ==
  /\ patients = PatientIds
  /\ profiles = {[id |-> <<"f">>, patientId |-> <<"p">>],
                 [id |-> <<"g">>, patientId |-> <<"q">>]}
  /\ cycles = {[id |-> <<"c">>, patientId |-> <<"p">>]}
  /\ documents = {[id |-> <<"d">>, patientId |-> <<"p">>, cycleId |-> <<"c">>],
                  [id |-> <<"e">>, patientId |-> <<"q">>, cycleId |-> NoCycle]}
  /\ labResults = {}
  /\ aiPredictions = {SeedRow(1, <<"p">>, 1), SeedRow(2, <<"q">>, 2)}
  /\ nextRowId = 3
  /\ now = 2
  /\ pc = "idle"
  /\ req = NoReq
  /\ loc = NoLoc
  /\ resp = NoResp
  /\ trace = NoTrace
  /\ rowsCreated = 2
  /\ idResponses = 2
  /\ recorded = {SeedBody(<<"p">>), SeedBody(<<"q">>)}
  /\ home = HomeInit
  /\ timer = NoTimer
  /\ lookups = <<>>
  /\ histories = <<>>
  /\ posting = NoPost
  /\ sinceEdit = DEBOUNCE_MS
  /\ selectedId = <<>>
  /\ lastRequested = <<>>
  /\ event = "render"

\* The patient field of the Home page: typing, the debounce, the lookups,
\* the selection of a suggestion and the history it loads.
NextLookup ==
  \/ \E value \in PatientTexts : PatientInputChange(value)
  \/ \E d \in {200, 400} : Tick(d)
  \/ DebounceElapsed
  \/ \E i \in 1..MaxInFlight :
       \E r \in IF i <= Len(lookups) THEN LookupAnswers(lookups[i]) ELSE {} :
         LookupFetched(i, r)
  \/ \E k \in 1..Cardinality(PatientIds) : handlePatientSelection(k)
  \/ \E i \in 1..MaxInFlight :
       \E r \in IF i <= Len(histories)
                THEN HistoryAnswers(histories[i].patientId) ELSE {} :
         HistoryFetched(i, r)

SpecLookup == InitHome /\ [][NextLookup]_vars

\* The consultation form and the history view of the Home page, with patient
\* ids typed or pasted into the patient field.
NextConsult ==
  \/ \E value \in IdTexts : PatientInputChange(value)
  \/ \E value \in InputTexts : InputChange(value)
  \/ Submit
  \/ \E ok \in BOOLEAN : PostFetched(ok)
  \/ viewHistory
  \/ \E i \in 1..MaxInFlight :
       \E r \in IF i <= Len(histories)
                THEN HistoryAnswers(histories[i].patientId) ELSE {} :
         HistoryFetched(i, r)
  \/ goBack
  \/ \E k \in 1..Cardinality(PatientIds) : loadHistoryItem(k)

SpecConsult == InitHome /\ [][NextConsult]_vars

\* ------------------------------------------------------------------ claims
PostDone == pc = "done" /\ req.method = "POST"

\* The text processPatientInput is to return for the completion it received
ExpectedText == IF trace.content = "" THEN NO_RESPONSE ELSE trace.content

\* C1: when the inference collaborator throws during a POST for an existing
\* patient, the response is 200 with fallback true and the canned retry
\* guidance, logAIInteraction is never called and no row is created.
C1_InferenceFailureFallback ==
  (PostDone /\ trace.ai = "throw") =>
    /\ resp.status = 200
    /\ resp.fallback = TRUE
    /\ resp.response = FALLBACK_RESPONSE
    /\ trace.logCalls = 0
    /\ trace.inserted = 0

C1_Witness ==
  /\ PostDone
  /\ trace.lookup = "ran" /\ trace.existed
  /\ trace.ai = "throw"
  /\ resp.fallback = TRUE

\* C2: when inference succeeds and logAIInteraction throws, the response is
\* 200 with the collaborator's output, predictionId null and no fallback flag,
\* and no row has been stored.
C2_AuditFailureSwallowed ==
  (PostDone /\ trace.ai = "ok" /\ trace.log = "throw") =>
    /\ resp.status = 200
    /\ resp.response = ExpectedText
    /\ resp.predictionId = NoId
    /\ resp.fallback = FALSE
    /\ trace.inserted = 0

C2_Witness ==
  /\ PostDone
  /\ trace.log = "throw"
  /\ resp.status = 200 /\ resp.predictionId = NoId
  /\ resp.response = "Structured clinical guidance"

\* The message and patientId a body carries; a body that is no JSON object
\* carries neither.
MessageInvalid(b) ==
  b.kind # "object" \/ b.message.t # "string" \/ trim(b.message.s) = <<>>
PatientIdInvalid(b) ==
  b.kind # "object" \/ b.patientId.t # "string" \/ trim(b.patientId.s) = <<>>
Untouched ==
  trace.lookup = "none" /\ trace.aiCalls = 0 /\ trace.logCalls = 0 /\ trace.inserted = 0

\* C3: for every POST body, a message that is missing, not a string or empty
\* after trimming is answered 400 with an error naming the message; otherwise
\* a patientId that is missing, not a string or empty after trimming is
\* answered 400 with an error naming patientId; in both cases the store is not
\* queried, the collaborator is not called and no row is inserted.
C3_ValidationRejects ==
  PostDone =>
    /\ MessageInvalid(req.body) =>
         (resp.status = 400 /\ resp.error = "Message is required" /\ Untouched)
    /\ (~MessageInvalid(req.body) /\ PatientIdInvalid(req.body)) =>
         (resp.status = 400 /\ resp.error = "patientId is required" /\ Untouched)

\* C4: a patientId that matches no Patient is answered 404 'Patient not found'
\* by POST and by GET, and POST then neither calls the collaborator nor
\* inserts a row.
C4_UnknownPatient404 ==
  (pc = "done" /\ trace.lookup = "ran" /\ ~trace.existed) =>
    /\ resp.status = 404
    /\ resp.error = "Patient not found"
    /\ trace.aiCalls = 0
    /\ trace.logCalls = 0
    /\ trace.inserted = 0

C4_Witness ==
  /\ PostDone
  /\ trace.lookup = "ran" /\ ~trace.existed
  /\ resp.status = 404

\* The cycle reference and the context a body asks for: the trimmed cycleId
\* when it is a non-empty string, the context when it is an object.
ExpectedCycle(b) ==
  IF b.cycleId.t = "string" /\ trim(b.cycleId.s) # <<>>
  THEN trim(b.cycleId.s) ELSE NoCycle
ExpectedContext(b) == IF b.context.t = "object" THEN b.context ELSE Undefined

\* C5: when the patient exists and inference and the audit insert succeed,
\* the response is 200 with the collaborator's output, the request's
\* (trimmed) patientId and the id of a newly created row that stores the
\* trimmed message, the output, the model identifier, the patientId and the
\* cycleId and context that were given.
C5_SuccessPersistsRow ==
  [][(pc = "log" /\ trace'.log = "ok") =>
       /\ resp'.status = 200
       /\ resp'.response = ExpectedText
       /\ resp'.patientId = trim(req.body.patientId.s)
       /\ resp'.predictionId # NoId
       /\ \E r \in aiPredictions' :
            /\ r.id = resp'.predictionId
            /\ \A o \in aiPredictions : o.id # r.id
            /\ r.input = trim(req.body.message.s)
            /\ r.output = ExpectedText
            /\ r.model = MODEL_NAME
            /\ r.modelVersion = MODEL_NAME
            /\ r.patientId = trim(req.body.patientId.s)
            /\ r.cycleId = ExpectedCycle(req.body)
            /\ r.context = ExpectedContext(req.body)]_vars

C5_Witness ==
  /\ PostDone
  /\ trace.log = "ok"
  /\ req.body.message = Str(<<" ", "h", "\t">>)
  /\ req.body.cycleId = Str(<<"c", " ">>)
  /\ req.body.context = ObjectVal
  /\ \E r \in aiPredictions :
       /\ r.id = resp.predictionId
       /\ r.input = <<"h">>
       /\ r.cycleId = <<"c">>
       /\ r.context = ObjectVal

\* C6: a POST inserts at most one row, and none when it answers 400, 404 or
\* the fallback; the number of rows created equals the number of responses
\* that carried a predictionId.
C6_OneRowPerIdResponse ==
  /\ rowsCreated = idResponses
  /\ trace.inserted <= 1
  /\ (PostDone /\ (resp.status \in {400, 404} \/ resp.fallback)) => trace.inserted = 0
  /\ PostDone => (trace.inserted = 1 <=> resp.predictionId # NoId)

\* a consultation answered by the fallback after one that was recorded
C6_Witness ==
  /\ PostDone
  /\ rowsCreated = 1 /\ idResponses = 1
  /\ resp.fallback = TRUE /\ trace.ai = "throw"

\* C7: in every reachable state every AIPrediction row and every LabResult
\* row references a Patient that exists.
C7_RowsReferencePatients ==
  /\ \A r \in aiPredictions : r.patientId \in patients
  /\ \A r \in labResults : r.patientId \in patients

\* a consultation whose patient was deleted between the lookup and the insert
C7_Witness ==
  /\ PostDone
  /\ trace.existed /\ trace.log = "throw"
  /\ loc.patientId \notin patients
  /\ aiPredictions # {}
  /\ labResults # {}

\* C8: every POST is answered with status 200, 400 or 404, whatever its body
\* and whether the store or the collaborator fails.
C8_PostNever5xx == PostDone => resp.status \in {200, 400, 404}

C8_Witness ==
  /\ PostDone
  /\ trace.lookup = "error"
  /\ resp.status = 200

\* C9: a POST whose trimmed message is non-empty and whose patientId names an
\* existing patient is answered 200 with a non-empty response text, whether
\* the inference call and the audit insert succeed or fail.
C9_ValidRequestGetsText ==
  (PostDone /\ ~MessageInvalid(req.body) /\ ~PatientIdInvalid(req.body)
     /\ trace.existed) =>
    /\ resp.status = 200
    /\ resp.response # ""

C9_Witness ==
  /\ PostDone
  /\ trace.existed
  /\ trace.ai = "ok" /\ trace.content = ""
  /\ resp.response = NO_RESPONSE

\* C10 as stated: no operation changes any field of an existing AIPrediction
\* row; a row can only cease to exist.
C10_RowsNeverChange ==
  [][\A r \in aiPredictions : \A n \in aiPredictions' : n.id = r.id => n = r]_vars

\* C10 as amended: no operation changes the input, output, model version,
\* confidence, patient reference or creation time of an existing row; its
\* cycle reference changes only to null, and only when the TreatmentCycle it
\* referenced is deleted; otherwise a row can only cease to exist.
C10_RowsChangeOnlyByDetach ==
  [][\A r \in aiPredictions : \A n \in aiPredictions' :
       n.id = r.id =>
         \/ n = r
         \/ /\ n = [r EXCEPT !.cycleId = NoCycle]
            /\ r.cycleId \notin {c.id : c \in cycles'}]_vars

\* the row of the consultation just answered was created with cycle c and has
\* since been detached from it
C10_Witness ==
  /\ PostDone
  /\ resp.cycleId = Str(<<"c">>)
  /\ \E r \in aiPredictions : r.id = resp.predictionId /\ r.cycleId = NoCycle

\* The dependents of the cycles in gone are all kept and differ from before
\* only by a null cycle reference.
OnlyDetached(old, new, gone) ==
  /\ {r.id : r \in new} = {r.id : r \in old}
  /\ \A r \in old :
       (IF r.cycleId \in gone THEN [r EXCEPT !.cycleId = NoCycle] ELSE r) \in new

\* C11: deleting a Patient removes its Profile and all its TreatmentCycles,
\* LabResults, Documents and AIPredictions; deleting a TreatmentCycle deletes
\* none of its LabResults, Documents or AIPredictions and only sets their
\* cycle reference to null.
C11_DeletionCascadesAndDetaches ==
  [][/\ \A id \in patients \ patients' :
          /\ \A r \in profiles' : r.patientId # id
          /\ \A r \in cycles' : r.patientId # id
          /\ \A r \in labResults' : r.patientId # id
          /\ \A r \in documents' : r.patientId # id
          /\ \A r \in aiPredictions' : r.patientId # id
     /\ (cycles' # cycles /\ patients' = patients) =>
          LET gone == cycleIdsAlive \ {c.id : c \in cycles'}
          IN  /\ OnlyDetached(labResults, labResults', gone)
              /\ OnlyDetached(documents, documents', gone)
              /\ OnlyDetached(aiPredictions, aiPredictions', gone)
              /\ profiles' = profiles]_vars

\* patient p has been deleted after a lab result and a consultation were
\* recorded for it: every row that referenced it is gone, those of q remain
C11_Witness ==
  /\ <<"p">> \notin patients /\ <<"q">> \in patients
  /\ nextRowId = 3 /\ rowsCreated = 1
  /\ labResults = {} /\ aiPredictions = {}
  /\ cycles = {}
  /\ profiles = {[id |-> <<"g">>, patientId |-> <<"q">>]}
  /\ documents = {[id |-> <<"e">>, patientId |-> <<"q">>, cycleId |-> NoCycle]}

\* C12: audit logging is idempotent: a consultation request whose body was
\* already recorded by an earlier POST leaves the set of AIPrediction rows
\* as it was.
C12_AuditLoggingIdempotent ==
  [][(pc = "log" /\ req.body \in recorded) => aiPredictions' = aiPredictions]_vars

\* C13: within one POST the steps occur in the order validate, patient
\* lookup, inference call, audit insert, respond: the store is queried only
\* for a valid body, the collaborator is called at most once and only after
\* the patient was found, the audit insert is attempted at most once and
\* only after inference returned successfully, a failed call is not
\* repeated, and nothing is called once the response is returned.
C13_StepOrder ==
  /\ [](req.method = "POST" =>
          /\ trace.lookup # "none" =>
               (~MessageInvalid(req.body) /\ ~PatientIdInvalid(req.body))
          /\ trace.aiCalls <= 1
          /\ trace.aiCalls = 1 => (trace.lookup = "ran" /\ trace.existed)
          /\ trace.logCalls <= 1
          /\ trace.logCalls = 1 => (trace.aiCalls = 1 /\ trace.ai = "ok")
          /\ trace.inserted > 0 => trace.logCalls = 1
          /\ pc = "done" => resp.status # 0)
  /\ [][PostDone => trace' = trace]_vars

\* a consultation whose audit insert failed: each step was taken once
C13_Witness ==
  /\ PostDone
  /\ trace.lookup = "ran"
  /\ trace.aiCalls = 1 /\ trace.ai = "ok"
  /\ trace.logCalls = 1 /\ trace.log = "throw"
  /\ resp.status = 200

\* the step of GET /api/ai/process that returns the history
HistoryReturned == pc = "findMany" /\ resp'.status = 200

\* C14: the history returned for a patient holds only AIPrediction rows of
\* that patient, each once, in descending order of creation time; their
\* number is the minimum of the effective limit and the number of the
\* patient's rows, and no row left out is newer than a row returned.
C14_HistoryNewestFirstTruncated ==
  [][HistoryReturned =>
       LET mine == {r \in aiPredictions : r.patientId = req.patientId.s}
           h == resp'.history
           returned == {h[i] : i \in 1..Len(h)}
       IN  /\ returned \subseteq mine
           /\ Cardinality(returned) = Len(h)
           /\ \A i, j \in 1..Len(h) : i < j => h[i].createdAt >= h[j].createdAt
           /\ Len(h) = Min(resp'.limit, Cardinality(mine))
           /\ \A r \in mine \ returned : \A k \in returned :
                r.createdAt <= k.createdAt]_vars

\* What a query parameter's text says: nothing numeric, or a plain decimal
\* numeral
NoDigit(s) == \A i \in 1..Len(s) : ~IsDigit(s[i])
AllDigits(s) == s # <<>> /\ \A i \in 1..Len(s) : IsDigit(s[i])

HistoryGet == req.method = "GET" /\ req.path = HISTORY_PATH

\* C15: the effective limit of the History Reader is 10 when limit is absent
\* or not a number, the parsed integer when that is between 1 and 50, and
\* never more than 50; the limit field of the response is the effective
\* limit, which is the take passed to the store query.
C15_HistoryLimit ==
  HistoryGet =>
    /\ (req.limit.t = "null" \/ NoDigit(req.limit.s)) => loc.limit = 10
    /\ (req.limit.t = "string" /\ AllDigits(req.limit.s)
          /\ DecimalValue(req.limit.s) \in 1..50) =>
         loc.limit = DecimalValue(req.limit.s)
    /\ loc.limit <= 50
    /\ trace.query # "none" => trace.take = loc.limit
    /\ (pc = "done" /\ resp.status = 200 /\ Truthy(req.patientId)) =>
         (trace.query = "ran" /\ resp.limit = trace.take)

\* a history request with limit=51 answered with limit 50
C15_Witness ==
  /\ HistoryGet /\ pc = "done"
  /\ req.limit = Str(<<"5", "1">>)
  /\ resp.status = 200
  /\ trace.take = 50 /\ resp.limit = 50

DirectoryGet == req.method = "GET" /\ req.path = PATIENTS_PATH
DirectoryDone == DirectoryGet /\ pc = "done"

\* C16: the effective limit of GET /api/patients is 20 when limit is absent,
\* empty or not a number, and otherwise the parsed integer clamped into
\* [1, 50] (999 gives 50, 0 and negatives give 1); a response never holds
\* more patients than the effective limit.
C16_DirectoryLimit ==
  DirectoryDone =>
    /\ (req.limit.t = "null" \/ NoDigit(req.limit.s)) => trace.take = 20
    /\ (req.limit.t = "string" /\ AllDigits(req.limit.s)) =>
         LET v == DecimalValue(req.limit.s)
         IN  trace.take = IF v < 1 THEN 1 ELSE IF v > 50 THEN 50 ELSE v
    /\ (req.limit.t = "string" /\ req.limit.s # <<>> /\ Head(req.limit.s) = "-"
          /\ AllDigits(Tail(req.limit.s))) => trace.take = 1
    /\ req.limit = Str(<<"9", "9", "9">>) => trace.take = 50
    /\ trace.take \in 1..50
    /\ resp.status = 200 => Len(resp.data) <= trace.take

\* limit=0 with two patients in the directory: one patient is returned
C16_Witness ==
  /\ DirectoryDone
  /\ req.limit = Str(<<"0">>) /\ req.search = NullVal
  /\ patients = PatientIds
  /\ resp.status = 200 /\ Len(resp.data) = 1
  /\ trace.take = 1

\* the step of GET /api/patients that answers 200
DirectoryAnswered ==
  pc = "idle" /\ req'.method = "GET" /\ req'.path = PATIENTS_PATH /\ resp'.status = 200

\* text is a substring of column, letter case ignored
SubstringIgnoringCase(text, column) ==
  \E i, j \in 0..Len(column) :
    LowerCase(SubSeq(column, i + 1, j)) = LowerCase(text)

\* the patient's first name, last name, email or MRN holds the text
MatchesSearch(id, text) ==
  \/ SubstringIgnoringCase(text, PatientRecord(id).firstName)
  \/ SubstringIgnoringCase(text, PatientRecord(id).lastName)
  \/ /\ PatientRecord(id).email.t = "string"
     /\ SubstringIgnoringCase(text, PatientRecord(id).email.s)
  \/ SubstringIgnoringCase(text, PatientRecord(id).mrn)

BlankSearch(raw) ==
  raw.t = "null" \/ \A i \in 1..Len(raw.s) : raw.s[i] \in WhiteSpace

\* the patients in the store that the search parameter selects
Selected(raw) ==
  IF BlankSearch(raw) THEN patients
  ELSE {id \in patients : MatchesSearch(id, trim(raw.s))}

\* C17: GET /api/patients gives the store query no filter when search is
\* absent, empty or white space only; otherwise it returns only patients
\* whose first name, last name, email or MRN holds the trimmed search text,
\* letter case ignored; every such patient is returned unless the limit
\* cuts the list.
C17_DirectorySearch ==
  [][DirectoryAnswered =>
       LET data == resp'.data
           returned == {data[i].id : i \in 1..Len(data)}
       IN  /\ trace'.filtered <=> ~BlankSearch(req'.search)
           /\ returned \subseteq Selected(req'.search)
           /\ Cardinality(returned) = Len(data)
           /\ \A i \in 1..Len(data) :
                /\ data[i].firstName = PatientRecord(data[i].id).firstName
                /\ data[i].lastName = PatientRecord(data[i].id).lastName
                /\ data[i].mrn = PatientRecord(data[i].id).mrn
           /\ (returned = Selected(req'.search) \/ Len(data) = trace'.take)]_vars

\* search=AN with both patients in the store returns patient An alone
C17_Witness ==
  /\ DirectoryDone
  /\ req.search = Str(<<"A", "N">>)
  /\ patients = PatientIds
  /\ resp.status = 200 /\ resp.count = 1
  /\ resp.data[1].id = <<"p">>

\* C18: in every success response of GET /api/patients, count is the number
\* of entries of data and hasMore is true exactly when that number equals
\* the effective limit.
C18_CountAndHasMore ==
  (DirectoryDone /\ resp.status = 200) =>
    /\ resp.count = Len(resp.data)
    /\ resp.hasMore <=> (Len(resp.data) = trace.take)

\* limit=1 with two patients: one entry, hasMore true
C18_Witness ==
  /\ DirectoryDone
  /\ req.limit = Str(<<"1">>)
  /\ resp.status = 200
  /\ resp.count = 1 /\ Len(resp.data) = 1 /\ resp.hasMore = TRUE

\* C19 as stated: hasMore is true if and only if the store holds matching
\* patients beyond those returned in data.
C19_HasMoreExact ==
  [][DirectoryAnswered =>
       (resp'.hasMore <=>
          Cardinality(Selected(req'.search)) > Len(resp'.data))]_vars

\* C19 as amended: hasMore is true whenever the store holds matching
\* patients beyond those returned, and otherwise only when the matching
\* patients number exactly the effective limit.
C19_HasMoreHeuristic ==
  [][DirectoryAnswered =>
       (resp'.hasMore <=>
          \/ Cardinality(Selected(req'.search)) > Len(resp'.data)
          \/ Cardinality(Selected(req'.search)) = trace'.take)]_vars

\* limit=2 with exactly two patients: both are returned and hasMore is true
C19_Witness ==
  /\ DirectoryDone
  /\ req.limit = Str(<<"2">>) /\ req.search = NullVal
  /\ patients = PatientIds
  /\ resp.status = 200 /\ resp.count = 2
  /\ resp.hasMore = TRUE

\* C20: on the read paths a store failure is answered 500 with a fixed
\* message, 'Unable to retrieve patients. Please try again later.' by
\* GET /api/patients and 'Failed to load AI history' by the history of a
\* patient; GET /api/patients answers 200 whenever the store does not fail.
C20_ReadPathStoreFailure ==
  /\ (DirectoryDone /\ trace.query = "error") =>
       /\ resp.status = 500
       /\ resp.error = "Unable to retrieve patients. Please try again later."
       /\ resp.data = <<>>
  /\ (DirectoryDone /\ trace.query # "error") => resp.status = 200
  /\ (HistoryGet /\ pc = "done" /\ Truthy(req.patientId)
        /\ (trace.lookup = "error" \/ trace.query = "error")) =>
       /\ resp.status = 500
       /\ resp.error = "Failed to load AI history"
       /\ resp.history = <<>>

\* the store failed on the directory query
C20_Witness ==
  /\ DirectoryDone
  /\ trace.query = "error"
  /\ resp.status = 500

\* a step of a GET handler: the request in flight is a GET and the handler
\* moves on
GetStep == req'.method = "GET" /\ pc' # pc

\* C21: no step of a GET request (history, service metadata, patient
\* directory) inserts, updates or deletes a row of the store; a GET of
\* /api/ai/process without patientId is answered 200 with the service
\* metadata and issues no store query.
C21_GetHasNoSideEffects ==
  /\ [][GetStep =>
          /\ patients' = patients /\ profiles' = profiles
          /\ cycles' = cycles /\ documents' = documents
          /\ labResults' = labResults /\ aiPredictions' = aiPredictions
          /\ nextRowId' = nextRowId]_vars
  /\ []((HistoryGet /\ ~Truthy(req.patientId)) =>
          /\ pc = "done"
          /\ resp.status = 200
          /\ resp.message = "FertiClaude AI Process API is running"
          /\ resp.model = MODEL_NAME
          /\ trace.lookup = "none" /\ trace.query = "none"
          /\ trace.findManyCalls = 0)

\* the service metadata, answered for an empty patientId
C21_Witness ==
  /\ HistoryGet /\ pc = "done"
  /\ req.patientId = Str(<<>>)
  /\ resp.status = 200
  /\ resp.message = "FertiClaude AI Process API is running"

\* the step of a direct call of logAIInteraction that stored a row
InteractionLogged == pc = "idle" /\ req'.path = LOG_CALL /\ trace'.log = "ok"

\* C22: logAIInteraction stores the caller's confidence score whenever the
\* caller specifies one, and the default 0.85 only when the caller
\* specifies none.
C22_ConfidenceStored ==
  [][InteractionLogged =>
       \E r \in aiPredictions' \ aiPredictions :
         r.confidenceScore =
           IF req'.confidence = NoConfidence THEN 85
           ELSE CHOOSE n \in req'.confidence : TRUE]_vars

\* C25: a POST response carries fallback: true or the error 'AI service
\* temporarily unavailable' only if the inference collaborator was invoked
\* for that request and threw.
C25_FallbackOnlyOnInferenceFailure ==
  (PostDone /\ (resp.fallback \/ resp.error = "AI service temporarily unavailable")) =>
    (trace.aiCalls = 1 /\ trace.ai = "throw")

\* C26: for every limit query parameter, zero and negative integers
\* included, the take that the History Reader passes to the store lies
\* between 1 and 50, and a history response holds at most 50 rows.
C26_HistoryTakeInRange ==
  (HistoryGet /\ trace.query # "none") =>
    /\ trace.take \in 1..50
    /\ Len(resp.history) <= 50

\* C27: every AIPrediction row created by POST that has a cycle reference
\* points to a TreatmentCycle that exists and belongs to the patient of the
\* row.
C27_CycleOfSamePatient ==
  \A r \in aiPredictions :
    r.cycleId # NoCycle =>
      \E c \in cycles : c.id = r.cycleId /\ c.patientId = r.patientId

\* C28: when the patient is deleted after the POST's lookup found it and
\* before the audit insert, no row is inserted, no row references the
\* deleted patient, and the POST is answered 200 with the AI text and
\* predictionId null.
C28_PatientDeletedBeforeInsert ==
  (PostDone /\ trace.existed /\ trace.logCalls = 1 /\ ~trace.existedAtLog) =>
    /\ trace.inserted = 0
    /\ \A r \in aiPredictions : r.patientId # trim(req.body.patientId.s)
    /\ resp.status = 200
    /\ resp.response = ExpectedText
    /\ resp.fallback = FALSE
    /\ resp.predictionId = NoId

\* the patient was found by the lookup and gone at the insert
C28_Witness ==
  /\ PostDone
  /\ trace.existed /\ trace.logCalls = 1 /\ ~trace.existedAtLog
  /\ resp.status = 200
  /\ resp.response = NO_RESPONSE

\* a directory lookup leaves the page in this step
LookupIssued == Len(lookups') > Len(lookups)

\* C23: a directory lookup is issued only for a trimmed patient input of at
\* least two characters and only once 400 ms have passed with no further
\* edit of the input; an edit restarts the wait, so the pending lookup is
\* always the one for the latest input.
C23_DebouncedLookup ==
  /\ [](timer.armed =>
          /\ timer.query = trim(home.patientInput)
          /\ timer.elapsed = sinceEdit)
  /\ [][LookupIssued =>
          /\ lookups'[Len(lookups')] = trim(home.patientInput)
          /\ Len(trim(home.patientInput)) >= 2
          /\ sinceEdit >= 400]_vars

\* the lookup for " Bo" left after the user had typed "An" before it
C23_Witness ==
  /\ event = "timeout"
  /\ home.patientInput = <<" ", "B", "o">>
  /\ lookups = <<<<"B", "o">>>>
  /\ home.lastLookupRef = <<>>
  /\ sinceEdit = 400

\* the consultation text is blank; no patient has been typed or selected
NoText == trim(home.input) = <<>>
NoIdentifier == home.patientId = <<>> /\ trim(home.patientInput) = <<>>

\* C24: handleSubmit sends no request when the trimmed consultation text is
\* empty or when no patient identifier is available; when the text is there
\* and the identifier is not, it sets the form error 'Patient ID is required
\* to record consultations.' and leaves loading false.
C24_SubmitGuards ==
  [][event' = "submit" =>
       /\ (NoText \/ NoIdentifier) =>
             /\ ~posting'.sent
             /\ home'.loading = FALSE
             /\ <<lookups', histories'>> = <<lookups, histories>>
       /\ (~NoText /\ NoIdentifier) =>
             home'.formError = "Patient ID is required to record consultations."]_vars

\* a consultation text was submitted without a patient
C24_Witness ==
  /\ event = "submit"
  /\ home.input = <<"h">>
  /\ home.patientId = <<>> /\ home.patientInput = <<>>
  /\ home.formError = PATIENT_REQUIRED
  /\ ~home.loading /\ ~posting.sent

\* C29: after a suggestion is selected the suggestion list is empty,
\* patientId holds the selected patient's id and the selection triggers no
\* directory lookup; the list stays empty until the user next edits the
\* patient input, whatever lookup responses arrive in between.
C29_SelectionClearsSuggestions ==
  /\ [][event' = "select" =>
          /\ home'.patientId = selectedId'
          /\ lookups' = lookups
          /\ ~timer'.armed]_vars
  /\ [](selectedId # <<>> =>
          /\ home.patientSuggestions = <<>>
          /\ ~timer.armed)

\* the fetches of history in flight are all answered; the sessions shown
\* are those of one patient
HistoryQuiet == histories = <<>>
ShownFor(id) ==
  \A k \in 1..Len(home.consultationHistory) :
    home.consultationHistory[k].patientId = id

\* C30: once every history fetch in flight has completed (the last of them
\* without an error to show), the history shown is that of the patient
\* requested last and historyLoading is false; while a history fetch is in
\* flight historyLoading is true.
C30_LatestHistoryShown ==
  /\ (HistoryQuiet /\ event = "history" /\ home.historyError = "") =>
        /\ home.consultationHistory # <<>>
        /\ ShownFor(lastRequested)
  /\ HistoryQuiet => ~home.historyLoading
  /\ ~HistoryQuiet => home.historyLoading

====
